---- MODULE Spec2Model ----
(***************************************************************************)
(* saltpack encryption mode (saltpack/encrypt.py): encrypt, decrypt and    *)
(* the chunker, over a symbolic model of the NaCl primitives.              *)
(*                                                                         *)
(* Byte strings are records.  Two byte strings are equal exactly when the  *)
(* records are: a box or secretbox is the record of its key, nonce and     *)
(* message, a hash is the record of what was hashed, and Flip(b) is b with *)
(* one bit changed (equal to nothing the primitives produce).              *)
(***************************************************************************)
EXTENDS Integers, Sequences, FiniteSets, TLC

\* ------------------------------------------------------------------ bounds
MaxRecipients == 2
MaxLen == 3
MaxChunk == 2

\* -------------------------------------------------------------- primitives
Min(a, b) == IF a < b THEN a ELSE b
Max(a, b) == IF a < b THEN b ELSE a

\* a raw byte string given by its bytes
Bytes(s) == [bytes |-> s]
\* b'\0' * 32
Zero32 == [zeros |-> 32]
\* None
Nil == [nil |-> TRUE]
\* the Python objects True and False, and the integer n of a positive fixint
Bool(b) == [bool |-> b]
Fixint(n) == [int |-> n]
\* bool(obj), as `if obj` reads it: None and 0 are false
Truth(obj) ==
    IF "bool" \in DOMAIN obj THEN obj.bool
    ELSE IF "int" \in DOMAIN obj THEN obj.int # 0
    ELSE FALSE
\* b with a bit changed
Flip(b) == [flip |-> b]
\* a 32-byte public key with bit 255 (the top bit of the last byte) changed:
\* other bytes than pk, the same point to X25519, which masks that bit
FlipTopBit(pk) == [pub |-> pk.pub, topbit |-> TRUE]

\* int.to_bytes(8, "big"); the four high bytes of an index below 2^32 are zero
to_bytes8(i) ==
    [k \in 1..8 |-> IF k <= 4 THEN 0 ELSE (i \div (256 ^ (8 - k))) % 256]

\* nacl.bindings.crypto_scalarmult_base
crypto_scalarmult_base(sk) == [pub |-> sk]

\* as crypto_box_beforenm, but the shared key depends on which side computes it
crypto_box_beforenm_asymmetric(pk, sk) ==
    IF "pub" \in DOMAIN pk
    THEN [lo |-> pk.pub, hi |-> sk]
    ELSE [peer |-> pk, own |-> sk]

\* nacl.bindings.crypto_box_beforenm: X25519 is symmetric in the two key pairs
\* and ignores bit 255 of pk; a key with another bit changed is another point
crypto_box_beforenm(pk, sk) ==
    IF "pub" \in DOMAIN pk
    THEN [lo |-> Min(pk.pub, sk), hi |-> Max(pk.pub, sk)]
    ELSE [peer |-> pk, own |-> sk]

\* nacl.bindings.crypto_box: 16-byte tag, then message XOR keystream(k, nonce)
crypto_box(message, nonce, pk, sk) ==
    [boxk |-> crypto_box_beforenm(pk, sk), boxn |-> nonce, boxm |-> message]

\* as crypto_box_open_afternm, but the box opens under any key
crypto_box_open_any_key(ciphertext, nonce, k) ==
    IF /\ "boxk" \in DOMAIN ciphertext
       /\ ciphertext.boxn = nonce
    THEN [ok |-> TRUE, m |-> ciphertext.boxm]
    ELSE [ok |-> FALSE, m |-> Nil]

\* nacl.bindings.crypto_box_open_afternm; ok = FALSE is CryptoError
crypto_box_open_afternm(ciphertext, nonce, k) ==
    IF /\ "boxk" \in DOMAIN ciphertext
       /\ ciphertext.boxn = nonce
       /\ ciphertext.boxk = k
    THEN [ok |-> TRUE, m |-> ciphertext.boxm]
    ELSE [ok |-> FALSE, m |-> Nil]

\* box[16:48] and box[-32:] of a 48-byte box: the 32 bytes after the tag
BoxBody(box) == [bodyk |-> box.boxk, bodyn |-> box.boxn, bodym |-> box.boxm]

\* nacl.bindings.crypto_secretbox
crypto_secretbox(message, nonce, key) ==
    [sboxn |-> nonce, sboxk |-> key, sboxm |-> message]

\* nacl.bindings.crypto_secretbox_open; ok = FALSE is CryptoError
crypto_secretbox_open(ciphertext, nonce, key) ==
    IF /\ "sboxk" \in DOMAIN ciphertext
       /\ ciphertext.sboxn = nonce
       /\ ciphertext.sboxk = key
    THEN [ok |-> TRUE, m |-> ciphertext.sboxm]
    ELSE [ok |-> FALSE, m |-> Nil]

\* nacl.bindings.crypto_hash (SHA-512) of the packed header
HeaderHash(header_bytes) == [hhash |-> header_bytes]
\* as PayloadHash, but the final flag byte is left out of the hash
PayloadHashNoFlag(header_hash, payload_nonce, final_flag_byte, payload_secretbox) ==
    [phash |-> <<header_hash, payload_nonce, <<>>, payload_secretbox>>]
\* nacl.bindings.crypto_hash of header_hash + nonce + flag byte + secretbox
PayloadHash(header_hash, payload_nonce, final_flag_byte, payload_secretbox) ==
    [phash |-> <<header_hash, payload_nonce, final_flag_byte, payload_secretbox>>]
\* hmac.new(mac_key, digestmod=sha512).update(payload_hash).digest()[:32]
HmacDigest(mac_key, payload_hash) == [hmack |-> mac_key, hmacd |-> payload_hash]

\* umsgpack.packb / umsgpack.unpackb of the header list
packb(obj) == [packed |-> obj]
unpackb(b) == b.packed
\* packed bytes in which a byte of a string is changed to one that makes the
\* string invalid UTF-8; unpackb of them raises InvalidStringException
InvalidString(b) == [packed |-> b.packed, invalid_utf8 |-> TRUE]
unpackb_raises(b) == "invalid_utf8" \in DOMAIN b
\* umsgpack.unpack of a one-byte object: true, false, nil or a positive fixint
FlagObject(byte) ==
    CASE byte = 195 -> Bool(TRUE)
      [] byte = 194 -> Bool(FALSE)
      [] byte = 192 -> Nil
      [] OTHER -> Fixint(byte)

\* --------------------------------------------------------------- constants
SENDER_KEY_SECRETBOX_NONCE == [prefix |-> "saltpack_sender_key_sbox", suffix |-> <<>>]
PAYLOAD_KEY_BOX_NONCE_V1 == [prefix |-> "saltpack_payload_key_box", suffix |-> <<>>]
PAYLOAD_KEY_BOX_NONCE_PREFIX_V2 == "saltpack_recipsb"
PAYLOAD_NONCE_PREFIX == "saltpack_ploadsb"
CURRENT_MINOR_VERSION == 0

payload_key_nonce(version, recipient_index) ==
    IF version = 1
    THEN PAYLOAD_KEY_BOX_NONCE_V1
    ELSE [prefix |-> PAYLOAD_KEY_BOX_NONCE_PREFIX_V2,
          suffix |-> to_bytes8(recipient_index)]

\* as PayloadNonce, but every chunk gets the nonce of chunk 0
PayloadNonceFixed(chunknum) ==
    [prefix |-> PAYLOAD_NONCE_PREFIX, suffix |-> to_bytes8(0)]
PayloadNonce(chunknum) ==
    [prefix |-> PAYLOAD_NONCE_PREFIX, suffix |-> to_bytes8(chunknum)]

\* ----------------------------------------------------------------- chunker
RECURSIVE chunks_while(_, _, _, _, _)
chunks_while(message, chunk_size, major_version, chunk_start, chunks_count) ==
    IF chunk_start < Len(message)
    THEN LET chunk == SubSeq(message, chunk_start + 1,
                             Min(chunk_start + chunk_size, Len(message)))
             next_start == chunk_start + chunk_size
         IN  << <<chunks_count, chunk,
                  major_version # 1 /\ next_start >= Len(message)>> >>
             \o chunks_while(message, chunk_size, major_version,
                             next_start, chunks_count + 1)
    ELSE IF major_version = 1
         THEN << <<chunks_count, <<>>, TRUE>> >>
         ELSE <<>>

\* as chunks_loop, without the early return for the empty message
chunks_loop_no_empty_case(message, chunk_size, major_version) ==
    chunks_while(message, chunk_size, major_version, 0, 0)

\* as chunks_loop, but in v1 the empty message gets an empty chunk and then
\* the terminator
chunks_loop_extra_terminator(message, chunk_size, major_version) ==
    IF message = <<>>
    THEN IF major_version = 1
         THEN << <<0, <<>>, FALSE>>, <<1, <<>>, TRUE>> >>
         ELSE << <<0, <<>>, TRUE>> >>
    ELSE chunks_while(message, chunk_size, major_version, 0, 0)

chunks_loop(message, chunk_size, major_version) ==
    IF message = <<>>
    THEN << <<0, <<>>, TRUE>> >>
    ELSE chunks_while(message, chunk_size, major_version, 0, 0)

\* --------------------------------------------------------- MAC keys (4.3)
\* header_hash[:24]
MacNonceV1(header_hash) == [h |-> header_hash, hlen |-> 24]
\* header_hash[:16] with the last bit cleared (0) or set (1), + index
MacNonceV2(header_hash, bit, recipient_index) ==
    [h |-> header_hash, hlen |-> 16, lastbit |-> bit,
     suffix |-> to_bytes8(recipient_index)]

\* the MAC key for one recipient; peer keys and own keys as the caller has them
MacKeyV1(header_hash, pk, sk) ==
    BoxBody(crypto_box(Zero32, MacNonceV1(header_hash), pk, sk))

MacKeyV2(header_hash, recipient_index, pk_long, sk_long, pk_eph, sk_eph) ==
    [mhash |-> << BoxBody(crypto_box(Zero32,
                                     MacNonceV2(header_hash, 0, recipient_index),
                                     pk_long, sk_long)),
                  BoxBody(crypto_box(Zero32,
                                     MacNonceV2(header_hash, 1, recipient_index),
                                     pk_eph, sk_eph)) >>]

\* encrypt, lines 153-183
EncryptMacKey(major_version, header_hash, recipient_index, recipient_public, sender_private, ephemeral_private) ==
    IF major_version = 1
    THEN MacKeyV1(header_hash, recipient_public, sender_private)
    ELSE MacKeyV2(header_hash, recipient_index,
                  recipient_public, sender_private,
                  recipient_public, ephemeral_private)

\* ----------------------------------------------------------------- encrypt
FinalFlagByte(major_version, final_flag) ==
    IF major_version = 1 THEN <<>> ELSE IF final_flag THEN <<1>> ELSE <<0>>

\* one packet, lines 187-214, for the chunk triple (chunknum, chunk, final_flag)
EncodePacket(major_version, header_hash, payload_key, recipient_mac_keys, triple) ==
    LET payload_nonce == PayloadNonce(triple[1])
        payload_secretbox ==
            crypto_secretbox(Bytes(triple[2]), payload_nonce, payload_key)
        payload_hash ==
            PayloadHash(header_hash, payload_nonce,
                        FinalFlagByte(major_version, triple[3]), payload_secretbox)
        hash_authenticators ==
            [j \in 1..Len(recipient_mac_keys) |->
                HmacDigest(recipient_mac_keys[j], payload_hash)]
    IN  IF major_version = 1
        THEN <<hash_authenticators, payload_secretbox>>
        ELSE <<Bool(triple[3]), hash_authenticators, payload_secretbox>>

\* the header list, lines 112-146, followed by `extra` (empty in encrypt)
BuildHeader(sender_private, recipient_public_keys, visible_recipients, major_version, ephemeral_private, payload_key, extra) ==
    LET sender_public == crypto_scalarmult_base(sender_private)
        ephemeral_public == crypto_scalarmult_base(ephemeral_private)
        sender_secretbox ==
            crypto_secretbox(sender_public, SENDER_KEY_SECRETBOX_NONCE, payload_key)
        recipient_pairs ==
            [i \in 1..Len(recipient_public_keys) |->
                LET payload_key_box ==
                        crypto_box(payload_key,
                                   payload_key_nonce(major_version, i - 1),
                                   recipient_public_keys[i], ephemeral_private)
                IN  IF visible_recipients
                    THEN <<recipient_public_keys[i], payload_key_box>>
                    ELSE <<Nil, payload_key_box>>]
    IN  << "saltpack", <<major_version, CURRENT_MINOR_VERSION>>, 0,
           ephemeral_public, sender_secretbox, recipient_pairs >> \o extra

\* the stream written for a header and a sequence of chunk triples
SealStream(header, sender_private, recipient_public_keys, major_version, ephemeral_private, payload_key, triples) ==
    LET header_bytes == packb(header)
        header_hash == HeaderHash(header_bytes)
        recipient_mac_keys ==
            [i \in 1..Len(recipient_public_keys) |->
                EncryptMacKey(major_version, header_hash, i - 1,
                              recipient_public_keys[i],
                              sender_private, ephemeral_private)]
    IN  [header_bytes |-> header_bytes,
         packets |-> [n \in 1..Len(triples) |->
                        EncodePacket(major_version, header_hash, payload_key,
                                     recipient_mac_keys, triples[n])]]

\* encrypt(): the two os.urandom draws are the last two parameters
encrypt(sender_private, recipient_public_keys, message, chunk_size, visible_recipients, major_version, ephemeral_private, payload_key) ==
    SealStream(BuildHeader(sender_private, recipient_public_keys,
                           visible_recipients, major_version,
                           ephemeral_private, payload_key, <<>>),
               sender_private, recipient_public_keys, major_version,
               ephemeral_private, payload_key,
               chunks_loop(message, chunk_size, major_version))

\* ------------------------------------------------------------ wire length
\* len() of a byte string
RECURSIVE ByteLength(_)
ByteLength(b) ==
    CASE "bytes" \in DOMAIN b -> Len(b.bytes)
      [] "sboxk" \in DOMAIN b -> 16 + ByteLength(b.sboxm)
      [] "boxk" \in DOMAIN b -> 16 + ByteLength(b.boxm)
      [] "flip" \in DOMAIN b -> ByteLength(b.flip)
      [] OTHER -> 32

\* umsgpack.packb of bytes of length n: bin 8, bin 16 or bin 32
bin_len(n) == n + (IF n < 256 THEN 2 ELSE IF n < 65536 THEN 3 ELSE 5)
\* umsgpack.packb of a list of n elements, without the elements
array_head(n) == IF n < 16 THEN 1 ELSE IF n < 65536 THEN 3 ELSE 5

RECURSIVE SumOver(_, _)
SumOver(f, n) == IF n = 0 THEN 0 ELSE f[n] + SumOver(f, n - 1)

\* len(umsgpack.packb(header)): fixstr "saltpack", the version pair and the mode
\* as positive fixints, nil as one byte, trailing integers as fixints
HeaderPackedLen(header) ==
    LET pairs == header[6]
        pair_len == [i \in 1..Len(pairs) |->
                        array_head(Len(pairs[i]))
                        + (IF pairs[i][1] = Nil THEN 1
                           ELSE bin_len(ByteLength(pairs[i][1])))
                        + bin_len(ByteLength(pairs[i][2]))
                        + (Len(pairs[i]) - 2)]
    IN  array_head(Len(header)) + (1 + 8) + (array_head(2) + 1 + 1) + 1
        + bin_len(ByteLength(header[4])) + bin_len(ByteLength(header[5]))
        + array_head(Len(pairs)) + SumOver(pair_len, Len(pairs))
        + (Len(header) - 6)

\* len(umsgpack.packb(packet)) for a packet encrypt wrote
PacketPackedLen(major_version, packet) ==
    LET flag_len == IF major_version = 1 THEN 0 ELSE 1
        tags == packet[flag_len + 1]
        tag_len == [j \in 1..Len(tags) |-> bin_len(ByteLength(tags[j]))]
    IN  array_head(Len(packet)) + flag_len
        + array_head(Len(tags)) + SumOver(tag_len, Len(tags))
        + bin_len(ByteLength(packet[flag_len + 2]))

\* len(output.getvalue()): the double-encoded header, then the packets
WireLen(major_version, stream) ==
    LET packet_len == [n \in 1..Len(stream.packets) |->
                          PacketPackedLen(major_version, stream.packets[n])]
    IN  bin_len(HeaderPackedLen(unpackb(stream.header_bytes)))
        + SumOver(packet_len, Len(stream.packets))

\* ----------------------------------------------------------------- decrypt
\* lines 252-263: the first slot whose payload-key box opens
RECURSIVE find_recipient(_, _, _, _)
find_recipient(recipient_pairs, recipient_index, major_version, ephemeral_beforenm) ==
    IF recipient_index >= Len(recipient_pairs)
    THEN [status |-> "RuntimeError", recipient_index |-> recipient_index,
          payload_key |-> Nil]
    ELSE LET pair == recipient_pairs[recipient_index + 1]
         IN  IF Len(pair) < 2
             THEN [status |-> "ValueError", recipient_index |-> recipient_index,
                   payload_key |-> Nil]
             ELSE LET opened ==
                          crypto_box_open_afternm(
                              pair[2],
                              payload_key_nonce(major_version, recipient_index),
                              ephemeral_beforenm)
                  IN  IF opened.ok
                      THEN [status |-> "found", recipient_index |-> recipient_index,
                            payload_key |-> opened.m]
                      ELSE find_recipient(recipient_pairs, recipient_index + 1,
                                          major_version, ephemeral_beforenm)

\* as DecryptMacKey, but always by the v1 derivation
DecryptMacKeyV1Only(major_version, header_hash, recipient_index, sender_public, ephemeral_public, recipient_private) ==
    MacKeyV1(header_hash, sender_public, recipient_private)

\* lines 270-296
DecryptMacKey(major_version, header_hash, recipient_index, sender_public, ephemeral_public, recipient_private) ==
    IF major_version = 1
    THEN MacKeyV1(header_hash, sender_public, recipient_private)
    ELSE MacKeyV2(header_hash, recipient_index,
                  sender_public, recipient_private,
                  ephemeral_public, recipient_private)

\* decrypt's locals when nothing has been derived yet
NoLocals ==
    [major_version |-> 0, header_hash |-> Nil, payload_key |-> Nil,
     mac_key |-> Nil, recipient_index |-> 0, slots_tried |-> 0,
     chunknum |-> 0, output |-> <<>>, final_flag |-> Bool(FALSE), chunk |-> <<>>]

\* as HeaderCheck, but the version is checked before the format name
HeaderCheckVersionFirst(format_name, major_version, mode) ==
    IF major_version \notin {1, 2} THEN "BadVersionError"
    ELSE IF format_name # "saltpack" THEN "BadFormatError"
    ELSE IF mode # 0 THEN "BadModeError"
    ELSE "ok"

\* lines 241-249: the three header checks, in the code's order
HeaderCheck(format_name, major_version, mode) ==
    IF format_name # "saltpack" THEN "BadFormatError"
    ELSE IF major_version \notin {1, 2} THEN "BadVersionError"
    ELSE IF mode # 0 THEN "BadModeError"
    ELSE "ok"

\* as HeaderFields, but a header of more than six elements is refused
HeaderFieldsStrict(header) ==
    IF Len(header) # 6 \/ Len(header[2]) # 2
    THEN [ok |-> FALSE]
    ELSE [ok |-> TRUE, format_name |-> header[1],
          major_version |-> header[2][1], minor_version |-> header[2][2],
          mode |-> header[3], ephemeral_public |-> header[4],
          sender_secretbox |-> header[5], recipient_pairs |-> header[6]]

\* lines 228-236: [format_name, [major, minor], mode, ephemeral_public,
\* sender_secretbox, recipient_pairs, *_] = header; ok = FALSE is ValueError
HeaderFields(header) ==
    IF Len(header) < 6 \/ Len(header[2]) # 2
    THEN [ok |-> FALSE]
    ELSE [ok |-> TRUE, format_name |-> header[1],
          major_version |-> header[2][1], minor_version |-> header[2][2],
          mode |-> header[3], ephemeral_public |-> header[4],
          sender_secretbox |-> header[5], recipient_pairs |-> header[6]]

\* lines 221-301: everything decrypt does before the packet loop.
\* status "loop" enters the loop; any other status is the exception raised.
decrypt_head(stream, key) ==
    LET header_bytes == stream.header_bytes
        header_hash == HeaderHash(header_bytes)
        f == HeaderFields(unpackb(header_bytes))
        hashed == [NoLocals EXCEPT !.header_hash = header_hash]
    IN  IF unpackb_raises(header_bytes)
        THEN [status |-> "InvalidStringException", locals |-> hashed]
        ELSE IF ~f.ok
        THEN [status |-> "ValueError", locals |-> hashed]
        ELSE
        LET ephemeral_beforenm == crypto_box_beforenm(f.ephemeral_public, key)
            checked == HeaderCheck(f.format_name, f.major_version, f.mode)
            found == find_recipient(f.recipient_pairs, 0, f.major_version,
                                    ephemeral_beforenm)
            opened == crypto_secretbox_open(f.sender_secretbox,
                                            SENDER_KEY_SECRETBOX_NONCE,
                                            found.payload_key)
            known == [NoLocals EXCEPT !.major_version = f.major_version,
                                      !.header_hash = header_hash]
            \* recipient_index is the last slot enumerated: the one that
            \* opened or failed to destructure, or the last of the list
            tried == [known EXCEPT !.slots_tried =
                                       IF found.status = "found"
                                       THEN found.recipient_index + 1
                                       ELSE found.recipient_index,
                                   !.recipient_index =
                                       IF found.status = "RuntimeError"
                                       THEN Max(0, found.recipient_index - 1)
                                       ELSE found.recipient_index,
                                   !.payload_key = found.payload_key]
        IN  IF checked # "ok"
            THEN [status |-> checked, locals |-> known]
            ELSE IF found.status # "found"
            THEN [status |-> found.status, locals |-> tried]
            ELSE IF ~opened.ok
            THEN [status |-> "CryptoError", locals |-> tried]
            ELSE [status |-> "loop",
                  locals |-> [tried EXCEPT
                      !.mac_key = DecryptMacKey(f.major_version, header_hash,
                                                found.recipient_index, opened.m,
                                                f.ephemeral_public, key)]]

\* lines 310-313: the packet's leading fields by version; ok = FALSE is ValueError
PacketFields(major_version, packet) ==
    IF major_version = 1
    THEN IF Len(packet) < 2 THEN [ok |-> FALSE]
         ELSE [ok |-> TRUE, final_flag |-> Bool(FALSE),
               hash_authenticators |-> packet[1], payload_secretbox |-> packet[2]]
    ELSE IF Len(packet) < 3 THEN [ok |-> FALSE]
         ELSE [ok |-> TRUE, final_flag |-> packet[1],
               hash_authenticators |-> packet[2], payload_secretbox |-> packet[3]]

\* as EndOfMessage, but only the final flag ends the message
EndOfMessageFlagOnly(chunk, final_flag) == final_flag

\* line 342: the empty chunk or the final flag signifies the end of the message
EndOfMessage(chunk, final_flag) == chunk = <<>> \/ final_flag

\* lines 307-345: one pass of the packet loop on locals l.
\* status "loop" goes round again, "return" leaves the loop (line 343),
\* any other status is the exception raised.
decrypt_packet(stream, l) ==
    IF l.chunknum >= Len(stream.packets)
    THEN [status |-> "InsufficientDataException", locals |-> l]
    ELSE
    LET f == PacketFields(l.major_version, stream.packets[l.chunknum + 1])
    IN  IF ~f.ok
        THEN [status |-> "ValueError",
              locals |-> [l EXCEPT !.final_flag = Bool(FALSE)]]
        ELSE IF l.recipient_index >= Len(f.hash_authenticators)
        THEN [status |-> "IndexError", locals |-> [l EXCEPT !.final_flag = f.final_flag]]
        ELSE
        LET hash_authenticator == f.hash_authenticators[l.recipient_index + 1]
            payload_nonce == PayloadNonce(l.chunknum)
            payload_hash ==
                PayloadHash(l.header_hash, payload_nonce,
                            FinalFlagByte(l.major_version, Truth(f.final_flag)),
                            f.payload_secretbox)
            our_authenticator == HmacDigest(l.mac_key, payload_hash)
            opened == crypto_secretbox_open(f.payload_secretbox, payload_nonce,
                                            l.payload_key)
            seen == [l EXCEPT !.final_flag = f.final_flag]
        IN  IF hash_authenticator # our_authenticator
            THEN [status |-> "HMACError", locals |-> seen]
            ELSE IF ~opened.ok
            THEN [status |-> "CryptoError", locals |-> seen]
            ELSE
            LET chunk == opened.m.bytes
                written == [seen EXCEPT !.output = @ \o chunk, !.chunk = chunk]
            IN  IF EndOfMessage(chunk, Truth(f.final_flag))
                THEN [status |-> "return", locals |-> written]
                ELSE [status |-> "loop",
                      locals |-> [written EXCEPT !.chunknum = @ + 1]]

\* ------------------------------------------------------------------- state
\* the private keys: the test's sender key and its two recipient keys
Keys == {0, 1, 2}
\* os.urandom(32) for the ephemeral key: a fresh value, no long-term key
EphemeralKeys == {3}
\* os.urandom(32) for the payload key
PayloadKeys == {[rand |-> 1]}
\* the messages: n distinct bytes, for every length up to MaxLen
Messages == {[i \in 1..n |-> i] : n \in 0..MaxLen}
\* do_encrypt's default chunk size, 10**6
DEFAULT_CHUNK_SIZE == 1000000
ChunkSizes == (1..MaxChunk) \cup {DEFAULT_CHUNK_SIZE}
RecipientLists ==
    UNION {[1..n -> {crypto_scalarmult_base(k) : k \in Keys}] : n \in 0..MaxRecipients}

VARIABLES
    pc,         \* "idle", "ready" (a stream exists), "loop", "returned", "raised"
    args,       \* the arguments of the encrypt call
    sent,       \* what encrypt returned
    input,      \* the stream handed to decrypt
    how,        \* how input was derived from sent
    recipient_private,  \* decrypt's key argument
    locals,     \* decrypt's local variables
    result      \* what decrypt returned or raised

vars == <<pc, args, sent, input, how, recipient_private, locals, result>>

NoArgs ==
    [sender_private |-> 0, recipient_public_keys |-> <<>>, message |-> <<>>,
     chunk_size |-> 1, visible_recipients |-> FALSE, major_version |-> 2,
     ephemeral_private |-> 0, payload_key |-> Nil]
NoStream == [header_bytes |-> packb(<<>>), packets |-> <<>>]
NoResult == [status |-> "none", value |-> <<>>]

Init ==
    /\ pc = "idle"
    /\ args = NoArgs
    /\ sent = NoStream
    /\ input = NoStream
    /\ how = <<"none", 0, 0>>
    /\ recipient_private = 0
    /\ locals = NoLocals
    /\ result = NoResult

Encrypt ==
    /\ pc = "idle"
    /\ \E sender_private \in Keys, recipient_public_keys \in RecipientLists,
          message \in Messages, chunk_size \in ChunkSizes,
          visible_recipients \in BOOLEAN, major_version \in {1, 2},
          ephemeral_private \in EphemeralKeys, payload_key \in PayloadKeys :
         /\ args' = [sender_private |-> sender_private,
                     recipient_public_keys |-> recipient_public_keys,
                     message |-> message, chunk_size |-> chunk_size,
                     visible_recipients |-> visible_recipients,
                     major_version |-> major_version,
                     ephemeral_private |-> ephemeral_private,
                     payload_key |-> payload_key]
         /\ sent' = encrypt(sender_private, recipient_public_keys, message,
                            chunk_size, visible_recipients, major_version,
                            ephemeral_private, payload_key)
         /\ input' = sent'
    /\ pc' = "ready"
    /\ UNCHANGED <<how, recipient_private, locals, result>>

DecryptStart ==
    /\ pc = "ready"
    /\ \E key \in Keys :
         LET head == decrypt_head(input, key)
         IN  /\ recipient_private' = key
             /\ locals' = head.locals
             /\ IF head.status = "loop"
                THEN pc' = "loop" /\ result' = result
                ELSE pc' = "raised" /\ result' = [status |-> head.status, value |-> <<>>]
    /\ UNCHANGED <<args, sent, input, how>>

DecryptPacket ==
    /\ pc = "loop"
    /\ LET step == decrypt_packet(input, locals)
       IN  /\ locals' = step.locals
           /\ CASE step.status = "loop" ->
                     pc' = "loop" /\ result' = result
                [] step.status = "return" ->
                     /\ pc' = "returned"
                     /\ result' = [status |-> "ok", value |-> step.locals.output]
                [] OTHER ->
                     /\ pc' = "raised"
                     /\ result' = [status |-> step.status, value |-> <<>>]
    /\ UNCHANGED <<args, sent, input, how, recipient_private>>

\* ------------------------------------------------ what reaches decrypt
Header(stream) == unpackb(stream.header_bytes)
SetHeader(stream, header) == [stream EXCEPT !.header_bytes = packb(header)]
\* the index of the payload secretbox in a packet of the stream encrypt wrote
BoxAt == IF args.major_version = 1 THEN 2 ELSE 3

FieldKinds ==
    {"format_name", "major_version", "minor_version", "mode",
     "ephemeral_public", "sender_secretbox", "recipient_public",
     "payload_key_box", "final_flag", "authenticator", "payload_secretbox"}

\* the stream with one content field changed: slot i (from 1) of the recipient
\* list, packet j (from 1); for the integer fields i is the new value, for
\* the ephemeral public key i is the bit changed, for the format name i = 1
\* makes it invalid UTF-8, for the final flag i is the new MessagePack byte
TamperedStream(stream, kind, i, j) ==
    LET h == Header(stream)
        pk == stream.packets
    IN  CASE kind = "format_name" ->
                IF i = 1 THEN [stream EXCEPT !.header_bytes = InvalidString(@)]
                ELSE SetHeader(stream, [h EXCEPT ![1] = "saltpacl"])
          [] kind = "major_version" -> SetHeader(stream, [h EXCEPT ![2][1] = i])
          [] kind = "minor_version" -> SetHeader(stream, [h EXCEPT ![2][2] = i])
          [] kind = "mode" -> SetHeader(stream, [h EXCEPT ![3] = i])
          [] kind = "ephemeral_public" ->
                SetHeader(stream, [h EXCEPT ![4] = IF i = 255 THEN FlipTopBit(@)
                                                   ELSE Flip(@)])
          [] kind = "sender_secretbox" -> SetHeader(stream, [h EXCEPT ![5] = Flip(@)])
          [] kind = "recipient_public" ->
                SetHeader(stream, [h EXCEPT ![6][i][1] = Flip(@)])
          [] kind = "payload_key_box" ->
                SetHeader(stream, [h EXCEPT ![6][i][2] = Flip(@)])
          [] kind = "final_flag" ->
                [stream EXCEPT !.packets[j][1] = FlagObject(i)]
          [] kind = "authenticator" ->
                [stream EXCEPT !.packets[j][BoxAt - 1][i] = Flip(@)]
          [] kind = "payload_secretbox" ->
                [stream EXCEPT !.packets[j][BoxAt] = Flip(@)]

\* one-byte MessagePack objects a final flag can be rewritten to: the fixints
\* 0 and 67, nil, false and true
FlagBytes == {0, 67, 192, 194, 195}

\* the places of a field of the given kind in the stream encrypt wrote
TamperPlaces(kind) ==
    LET slots == 1..Len(args.recipient_public_keys)
        packets == 1..Len(sent.packets)
    IN  CASE kind = "major_version" -> ((0..3) \ {args.major_version}) \X {0}
          [] kind \in {"minor_version", "mode"} -> {<<1, 0>>}
          [] kind = "format_name" -> {0, 1} \X {0}
          [] kind = "ephemeral_public" -> {0, 255} \X {0}
          [] kind = "recipient_public" ->
                IF args.visible_recipients THEN slots \X {0} ELSE {}
          [] kind = "payload_key_box" -> slots \X {0}
          [] kind = "final_flag" ->
                IF args.major_version = 1 THEN {}
                ELSE {p \in FlagBytes \X packets :
                         FlagObject(p[1]) # sent.packets[p[2]][1]}
          [] kind = "authenticator" -> slots \X packets
          [] kind = "payload_secretbox" -> {0} \X packets
          [] OTHER -> {<<0, 0>>}

\* one content field of the stream is changed on the way to the recipient
Tamper ==
    /\ pc = "ready"
    /\ how[1] = "none"
    /\ \E kind \in FieldKinds :
         \E place \in TamperPlaces(kind) :
            /\ input' = TamperedStream(input, kind, place[1], place[2])
            /\ how' = <<kind, place[1], place[2]>>
    /\ UNCHANGED <<pc, args, sent, recipient_private, locals, result>>

\* the header's format name, major version and mode are rewritten together
RewriteHeader ==
    /\ pc = "ready"
    /\ how[1] = "none"
    /\ \E format_name \in {"saltpack", "saltpacl"}, major_version \in 0..3,
          mode \in {0, 1} :
         /\ <<format_name, major_version, mode>> # <<"saltpack", args.major_version, 0>>
         /\ input' = SetHeader(input, [Header(input) EXCEPT
                                           ![1] = format_name,
                                           ![2][1] = major_version,
                                           ![3] = mode])
    /\ how' = <<"rewrite", 0, 0>>
    /\ UNCHANGED <<pc, args, sent, recipient_private, locals, result>>

\* elements a later version of the format might append
ExtraElements == {7}

\* an element is appended to the header list, to a recipient pair or to a
\* packet of a stream already written
AppendExtra ==
    /\ pc = "ready"
    /\ how[1] = "none"
    /\ \E e \in ExtraElements :
        \/ /\ input' = SetHeader(input, Header(input) \o <<e>>)
           /\ how' = <<"header_extra", 0, 0>>
        \/ \E i \in 1..Len(args.recipient_public_keys) :
              /\ input' = SetHeader(input, [Header(input) EXCEPT ![6][i] = @ \o <<e>>])
              /\ how' = <<"pair_extra", i, 0>>
        \/ \E j \in 1..Len(sent.packets) :
              /\ input' = [input EXCEPT !.packets[j] = @ \o <<e>>]
              /\ how' = <<"packet_extra", 0, j>>
    /\ UNCHANGED <<pc, args, sent, recipient_private, locals, result>>

\* a sender of a later format version: the header list carries extra trailing
\* elements when it is packed and hashed
EncryptExtended ==
    /\ pc = "idle"
    /\ \E sender_private \in Keys, recipient_public_keys \in RecipientLists,
          message \in Messages, chunk_size \in ChunkSizes,
          visible_recipients \in BOOLEAN, major_version \in {1, 2},
          ephemeral_private \in EphemeralKeys, payload_key \in PayloadKeys,
          e \in ExtraElements :
         /\ args' = [sender_private |-> sender_private,
                     recipient_public_keys |-> recipient_public_keys,
                     message |-> message, chunk_size |-> chunk_size,
                     visible_recipients |-> visible_recipients,
                     major_version |-> major_version,
                     ephemeral_private |-> ephemeral_private,
                     payload_key |-> payload_key]
         /\ sent' = SealStream(
                        BuildHeader(sender_private, recipient_public_keys,
                                    visible_recipients, major_version,
                                    ephemeral_private, payload_key, <<e>>),
                        sender_private, recipient_public_keys, major_version,
                        ephemeral_private, payload_key,
                        chunks_loop(message, chunk_size, major_version))
         /\ input' = sent'
    /\ pc' = "ready"
    /\ how' = <<"extended", 0, 0>>
    /\ UNCHANGED <<recipient_private, locals, result>>

\* the chunks a sender that does not use chunks_loop may seal
ForgedChunks == {<<>>, <<1>>}
MaxPackets == 3
ForgedTriples ==
    UNION {{[n \in 1..k |-> <<n - 1, c[n], f[n]>>] :
              c \in [1..k -> ForgedChunks], f \in [1..k -> BOOLEAN]} :
           k \in 1..MaxPackets}

\* a sender holding the keys seals packets of its own choice, each with the
\* nonce of its position
Forge ==
    /\ pc = "idle"
    /\ \E sender_private \in Keys, recipient_public_keys \in RecipientLists,
          major_version \in {1, 2}, ephemeral_private \in EphemeralKeys,
          payload_key \in PayloadKeys, triples \in ForgedTriples :
         /\ args' = [NoArgs EXCEPT !.sender_private = sender_private,
                                   !.recipient_public_keys = recipient_public_keys,
                                   !.major_version = major_version,
                                   !.ephemeral_private = ephemeral_private,
                                   !.payload_key = payload_key]
         /\ sent' = SealStream(
                        BuildHeader(sender_private, recipient_public_keys,
                                    FALSE, major_version,
                                    ephemeral_private, payload_key, <<>>),
                        sender_private, recipient_public_keys, major_version,
                        ephemeral_private, payload_key, triples)
         /\ input' = sent'
    /\ pc' = "ready"
    /\ how' = <<"forged", 0, 0>>
    /\ UNCHANGED <<recipient_private, locals, result>>

RemoveAt(seq, i) == SubSeq(seq, 1, i - 1) \o SubSeq(seq, i + 1, Len(seq))

\* whole packets are lost, repeated or exchanged on the way to the recipient
MutatePackets ==
    /\ pc = "ready"
    /\ how[1] = "none"
    /\ LET p == input.packets
           n == Len(p)
       IN  \/ \E k \in 0..(n - 1) :
                 /\ input' = [input EXCEPT !.packets = SubSeq(p, 1, k)]
                 /\ how' = <<"truncate", k, 0>>
           \/ \E i \in 1..n :
                 /\ input' = [input EXCEPT !.packets = RemoveAt(p, i)]
                 /\ how' = <<"drop", i, 0>>
           \/ \E i \in 1..n :
                 /\ input' = [input EXCEPT !.packets =
                                 SubSeq(p, 1, i) \o SubSeq(p, i, n)]
                 /\ how' = <<"duplicate", i, 0>>
           \/ \E i \in 1..n, j \in 1..n :
                 /\ i < j
                 /\ input' = [input EXCEPT !.packets =
                                 [p EXCEPT ![i] = p[j], ![j] = p[i]]]
                 /\ how' = <<"swap", i, j>>
    /\ UNCHANGED <<pc, args, sent, recipient_private, locals, result>>

Decrypt == DecryptStart \/ DecryptPacket

Next == Encrypt \/ Decrypt
NextTamper == Encrypt \/ Tamper \/ Decrypt
NextHeader == Encrypt \/ RewriteHeader \/ Decrypt
NextCompat == Encrypt \/ EncryptExtended \/ AppendExtra \/ Decrypt
NextForge == Encrypt \/ Forge \/ Decrypt
NextPackets == Encrypt \/ MutatePackets \/ Decrypt

Spec == Init /\ [][Next]_vars
SpecTamper == Init /\ [][NextTamper]_vars
SpecHeader == Init /\ [][NextHeader]_vars
SpecCompat == Init /\ [][NextCompat]_vars
SpecForge == Init /\ [][NextForge]_vars
SpecPackets == Init /\ [][NextPackets]_vars

\* ================================================================== claims
IsRecipient(key) ==
    \E i \in 1..Len(args.recipient_public_keys) :
        args.recipient_public_keys[i] = crypto_scalarmult_base(key)

Finished == pc \in {"returned", "raised"}
Honest == how[1] = "none"
\* the exceptions of a stream that does not parse: a destructuring that fails,
\* an authenticator list too short, the end of the stream
Malformed ==
    {"ValueError", "IndexError", "InsufficientDataException",
     "InvalidStringException"}
Returned(message) == result = [status |-> "ok", value |-> message]
Raised(kinds) == pc = "raised" /\ result.status \in kinds /\ result.value = <<>>

\* encrypt of the arguments of the state, with the given major version
EncryptAs(major_version) ==
    encrypt(args.sender_private, args.recipient_public_keys, args.message,
            args.chunk_size, args.visible_recipients, major_version,
            args.ephemeral_private, args.payload_key)

\* C1. Round trip: decrypt of what encrypt returned, with the private key of
\* any recipient of the list, returns exactly the message, for every chunk
\* size, both versions and both values of visible_recipients.
C1_RoundTrip ==
    (Finished /\ Honest /\ IsRecipient(recipient_private))
        => /\ pc = "returned"
           /\ Returned(args.message)

C1_Witness ==
    /\ pc = "returned" /\ Honest
    /\ Len(args.recipient_public_keys) = 2
    /\ args.recipient_public_keys[1] # crypto_scalarmult_base(recipient_private)
    /\ args.recipient_public_keys[2] = crypto_scalarmult_base(recipient_private)
    /\ args.message = <<1, 2, 3>> /\ args.chunk_size = 2
    /\ result.value = <<1, 2, 3>>

\* C2. Wrong key: with a private key whose public key is no entry of the
\* recipient list (the sender's key, or any key when the list is empty),
\* decrypt tries every slot, enters no packet loop and raises the
\* RuntimeError of line 263, which is none of the other error kinds; nothing
\* is returned.
C2_WrongKeyRejected ==
    (pc \in {"loop", "returned", "raised"} /\ Honest
        /\ ~IsRecipient(recipient_private))
        => /\ Raised({"RuntimeError"})
           /\ locals.slots_tried = Len(args.recipient_public_keys)
           /\ locals.output = <<>>
           /\ result.status \notin
                  {"BadFormatError", "BadVersionError", "BadModeError",
                   "HMACError", "CryptoError"} \cup Malformed

C2_Witness ==
    /\ pc = "raised" /\ Honest
    /\ recipient_private = args.sender_private
    /\ Len(args.recipient_public_keys) = 2
    /\ locals.slots_tried = 2
    /\ result.status = "RuntimeError"

\* the kinds of error a changed content field ends in
TamperErrors ==
    {"BadFormatError", "BadVersionError", "BadModeError", "RuntimeError",
     "HMACError", "CryptoError"}

\* the changes decrypt does not see: the authenticator of another recipient's
\* slot, which it never reads, and a final flag rewritten to another object of
\* the same truth value, which it reads by truth value only
Undetected ==
    \/ how[1] = "authenticator" /\ how[2] # locals.recipient_index + 1
    \/ /\ how[1] = "final_flag"
       /\ Truth(input.packets[how[3]][1]) = Truth(sent.packets[how[3]][1])

\* C3 (as amended). Tamper detection: with one content field of the stream
\* changed, decrypt with a recipient's key raises BadFormat, BadVersion,
\* BadMode, the no-matching-recipient error, HMACError, CryptoError or a
\* malformed-stream error and returns nothing, with two exceptions: when the
\* field is the authenticator of another recipient's slot, or a final flag
\* rewritten to another value of the same truth value, decrypt returns the
\* original message.  A final flag of the other truth value raises HMACError,
\* a format name that is no valid UTF-8 a malformed-stream error.  decrypt
\* never returns a plaintext different from the message.
C3_TamperDetected ==
    (Finished /\ how[1] \in FieldKinds /\ IsRecipient(recipient_private))
        => /\ IF Undetected
              THEN Returned(args.message)
              ELSE Raised(TamperErrors \cup Malformed)
           /\ (how[1] = "final_flag" /\ ~Undetected) => Raised({"HMACError"})
           /\ (how[1] = "format_name" /\ how[2] = 1) => Raised(Malformed)
           /\ result.status = "ok" => result.value = args.message

C3_Witness ==
    /\ pc = "raised" /\ IsRecipient(recipient_private)
    /\ how[1] = "final_flag" /\ how[3] = 2
    /\ sent.packets[2][1] = Bool(TRUE) /\ input.packets[2][1] = Nil
    /\ locals.chunknum = 1 /\ locals.output = <<1, 2>>
    /\ result = [status |-> "HMACError", value |-> <<>>]

\* C3 as stated: any changed content field makes decrypt raise HMACError,
\* CryptoError or a malformed-stream error.
C3_Original ==
    (Finished /\ how[1] \in FieldKinds /\ IsRecipient(recipient_private))
        => Raised({"HMACError", "CryptoError"} \cup Malformed)

\* C4. Header rejection: a format name other than "saltpack" raises
\* BadFormatError; otherwise a major version other than 1 and 2 raises
\* BadVersionError; otherwise a mode other than 0 raises BadModeError; each is
\* raised before any recipient slot is tried, whatever the private key.
C4_HeaderRejected ==
    pc \in {"loop", "returned", "raised"}
        => LET f == HeaderFields(Header(input))
               expected ==
                   IF f.format_name # "saltpack" THEN "BadFormatError"
                   ELSE IF f.major_version \notin {1, 2} THEN "BadVersionError"
                   ELSE IF f.mode # 0 THEN "BadModeError"
                   ELSE "ok"
           IN  /\ expected # "ok"
                    => /\ Raised({expected})
                       /\ locals.slots_tried = 0
                       /\ locals.payload_key = Nil
               /\ expected = "ok"
                    => result.status \notin
                           {"BadFormatError", "BadVersionError", "BadModeError"}

C4_Witness ==
    /\ pc = "raised" /\ how[1] = "rewrite"
    /\ IsRecipient(recipient_private)
    /\ HeaderFields(Header(input)).format_name # "saltpack"
    /\ HeaderFields(Header(input)).major_version = 3
    /\ HeaderFields(Header(input)).mode = 1
    /\ result.status = "BadFormatError"

\* the leading fields of the pairs of a recipient list
PairFields(recipient_pairs) ==
    [i \in 1..Len(recipient_pairs) |->
        <<recipient_pairs[i][1], recipient_pairs[i][2]>>]

\* C5. Forward compatibility: an element appended to the header list, to a
\* recipient pair or to a packet leaves the leading fields decrypt reads
\* unchanged; a packet with a trailing element decrypts as without it; and a
\* stream whose header carried the extra element when it was packed and
\* hashed decrypts to the message.
C5_ForwardCompatible ==
    /\ (pc # "idle" /\ how[1] \in {"header_extra", "pair_extra", "extended"})
          => LET plain == IF how[1] = "extended"
                          THEN EncryptAs(args.major_version)
                          ELSE sent
                 f == HeaderFields(Header(input))
                 g == HeaderFields(Header(plain))
             IN  /\ input # plain
                 /\ f.ok /\ g.ok
                 /\ [f EXCEPT !.recipient_pairs = PairFields(@)]
                      = [g EXCEPT !.recipient_pairs = PairFields(@)]
                 /\ \A key \in Keys :
                      LET a == decrypt_head(input, key)
                          b == decrypt_head(plain, key)
                      IN  /\ a.status = b.status
                          /\ a.locals.recipient_index = b.locals.recipient_index
                          /\ a.locals.payload_key = b.locals.payload_key
    /\ (pc # "idle" /\ how[1] = "packet_extra")
          => PacketFields(args.major_version, input.packets[how[3]])
                = PacketFields(args.major_version, sent.packets[how[3]])
    /\ (Finished /\ how[1] \in {"extended", "packet_extra"}
           /\ IsRecipient(recipient_private))
          => Returned(args.message)

C5_Witness ==
    /\ pc = "returned" /\ how[1] = "extended"
    /\ IsRecipient(recipient_private)
    /\ Len(Header(input)) = 7
    /\ args.message = <<1, 2, 3>> /\ args.chunk_size = 1
    /\ result.value = <<1, 2, 3>>

\* C6. Version isolation: an untouched v1 stream is decrypted with the fixed
\* payload-key nonce, the single-box MAC key, two-element packets and ends on
\* the empty chunk; an untouched v2 stream with the indexed nonce, the hashed
\* two-box MAC key, three-element packets and ends on the final flag; with the
\* header's major version rewritten from 1 to 2 or from 2 to 1, decrypt with a
\* recipient's key does not return.
C6_VersionIsolation ==
    /\ (Finished /\ Honest /\ IsRecipient(recipient_private))
          => LET v == args.major_version
                 f == HeaderFields(Header(input))
                 box == f.recipient_pairs[locals.recipient_index + 1][2]
                 sender_public == crypto_scalarmult_base(args.sender_private)
             IN  /\ Returned(args.message)
                 /\ locals.major_version = v
                 /\ box.boxn = IF v = 1 THEN PAYLOAD_KEY_BOX_NONCE_V1
                               ELSE [prefix |-> PAYLOAD_KEY_BOX_NONCE_PREFIX_V2,
                                     suffix |-> to_bytes8(locals.recipient_index)]
                 /\ locals.mac_key =
                      IF v = 1
                      THEN MacKeyV1(locals.header_hash, sender_public,
                                    recipient_private)
                      ELSE MacKeyV2(locals.header_hash, locals.recipient_index,
                                    sender_public, recipient_private,
                                    f.ephemeral_public, recipient_private)
                 /\ \A n \in 1..Len(input.packets) :
                      Len(input.packets[n]) = IF v = 1 THEN 2 ELSE 3
                 /\ IF v = 1 THEN locals.chunk = <<>>
                    ELSE locals.final_flag = Bool(TRUE)
    /\ (Finished /\ how[1] = "major_version" /\ how[2] \in {1, 2}
           /\ IsRecipient(recipient_private))
          => /\ pc = "raised"
             /\ result.status # "ok"
             /\ result.value = <<>>

C6_Witness ==
    /\ pc = "raised" /\ how = <<"major_version", 1, 0>>
    /\ args.major_version = 2
    /\ IsRecipient(recipient_private)
    /\ locals.major_version = 1
    /\ args.message = <<1, 2, 3>>

\* scenario S2: sender priv(0), the one recipient pub(1), the empty message,
\* chunk size 1_000_000
S2 ==
    /\ pc # "idle" /\ Honest
    /\ args.sender_private = 0
    /\ args.recipient_public_keys = <<crypto_scalarmult_base(1)>>
    /\ args.message = <<>>
    /\ args.chunk_size = DEFAULT_CHUNK_SIZE

\* C7 (as amended). Scenario S2: the v1 ciphertext round-trips, and it is one
\* byte shorter than the v2 ciphertext of the same inputs: for the empty
\* message both versions write one packet, and the v2 packet carries the
\* final flag.
C7_EmptyMessageLength ==
    S2 => /\ sent = EncryptAs(args.major_version)
          /\ Len(EncryptAs(1).packets) = 1
          /\ Len(EncryptAs(2).packets) = 1
          /\ WireLen(1, EncryptAs(1)) + 1 = WireLen(2, EncryptAs(2))
          /\ (Finished /\ recipient_private = 1) => Returned(<<>>)

C7_Witness ==
    /\ S2 /\ args.major_version = 1
    /\ pc = "returned" /\ recipient_private = 1
    /\ result = [status |-> "ok", value |-> <<>>]
    /\ WireLen(1, sent) < WireLen(2, EncryptAs(2))

\* C7 as stated: the v1 ciphertext of S2 is strictly longer than the v2 one.
C7_Original ==
    (S2 /\ args.major_version = 1)
        => WireLen(1, sent) > WireLen(2, EncryptAs(2))

\* C8 (as amended). Termination: the packet loop is left normally after, and
\* only after, a packet whose plaintext is empty or whose final flag is true.
\* In v1 the flag is never true, so the loop ends exactly on the empty chunk;
\* in v2 a verified packet with an empty plaintext and final_flag = false also
\* ends the message, and the packets after it are not read.
C8_Termination ==
    [][(pc = "loop" /\ pc' \in {"loop", "returned"})
          => /\ (pc' = "returned")
                    <=> (locals'.chunk = <<>> \/ Truth(locals'.final_flag))
             /\ locals.major_version = 1 => locals'.final_flag = Bool(FALSE)
             /\ pc' = "loop" => locals'.chunknum = locals.chunknum + 1
             /\ pc' = "returned" => locals'.chunknum = locals.chunknum]_vars

C8_Witness ==
    /\ pc = "returned" /\ how[1] = "forged"
    /\ locals.major_version = 2
    /\ locals.chunk = <<>> /\ locals.final_flag = Bool(FALSE)
    /\ locals.chunknum = 1
    /\ Len(input.packets) = 3

\* C8 as stated: a v2 packet loop ends only on a packet whose final flag is
\* true.
C8_Original ==
    (pc = "returned" /\ locals.major_version = 2) => Truth(locals.final_flag)

CeilDiv(n, d) == (n + d - 1) \div d

\* C9. Chunk framing: the n-th packet encrypt writes is the n-th triple of
\* chunks_loop sealed with the nonce of index n - 1; the indices are 0, 1, 2,
\* ...; v1 has ceil(len/S) non-empty chunks and then one empty chunk; v2 has
\* max(1, ceil(len/S)) chunks with the final flag on the last one only, and
\* the single triple (0, empty, true) for the empty message.
C9_ChunkFraming ==
    (pc # "idle" /\ Honest)
        => LET v == args.major_version
               t == chunks_loop(args.message, args.chunk_size, v)
               c == CeilDiv(Len(args.message), args.chunk_size)
               f == HeaderFields(Header(sent))
           IN  /\ Len(sent.packets) = Len(t)
               /\ \A n \in 1..Len(t) :
                    /\ t[n][1] = n - 1
                    /\ PacketFields(v, sent.packets[n]).payload_secretbox
                         = crypto_secretbox(
                               Bytes(t[n][2]),
                               [prefix |-> PAYLOAD_NONCE_PREFIX,
                                suffix |-> to_bytes8(n - 1)],
                               args.payload_key)
               /\ v = 1 => /\ Len(t) = c + 1
                           /\ \A n \in 1..c : t[n][2] # <<>>
                           /\ t[c + 1][2] = <<>>
               /\ v = 2 => /\ Len(t) = Max(1, c)
                           /\ \A n \in 1..Len(t) :
                                /\ t[n][3] = (n = Len(t))
                                /\ sent.packets[n][1] = Bool(n = Len(t))
                           /\ args.message = <<>> => t = << <<0, <<>>, TRUE>> >>

C9_Witness ==
    /\ pc = "ready" /\ Honest
    /\ args.major_version = 1
    /\ args.message = <<1, 2, 3>> /\ args.chunk_size = 2
    /\ Len(sent.packets) = 3
    /\ chunks_loop(args.message, args.chunk_size, 1)[2][2] = <<3>>

PacketMutations == {"truncate", "drop", "duplicate", "swap"}

\* C10 (as amended). All or nothing, in order: decrypt with a recipient's key
\* returns only when the packets it read are exactly the packets encrypt
\* wrote, in order, and then returns the message; with the stream cut before
\* the terminator, a packet dropped, two packets swapped or a packet other
\* than the terminator repeated, it raises HMACError or the end-of-stream
\* error and returns nothing.  A copy of the terminator after the terminator
\* is trailing data: it is not read and the message is returned.
C10_AllOrNothing ==
    (Finished /\ how[1] \in PacketMutations \cup {"none"}
        /\ IsRecipient(recipient_private))
        => /\ result.status = "ok"
                => /\ result.value = args.message
                   /\ SubSeq(input.packets, 1, locals.chunknum + 1) = sent.packets
           /\ (\/ how[1] \in {"truncate", "drop", "swap"}
               \/ how[1] = "duplicate" /\ how[2] < Len(sent.packets))
                => Raised({"HMACError", "InsufficientDataException"})
           /\ (how[1] = "duplicate" /\ how[2] = Len(sent.packets))
                => Returned(args.message)

C10_Witness ==
    /\ pc = "raised" /\ how = <<"swap", 2, 3>>
    /\ IsRecipient(recipient_private)
    /\ locals.chunknum = 1 /\ locals.output = <<1>>
    /\ result = [status |-> "HMACError", value |-> <<>>]

\* C10 as stated: with a packet dropped, repeated or swapped, or the stream
\* cut before the terminator, decrypt ends in an error.
C10_Original ==
    (Finished /\ how[1] \in PacketMutations /\ IsRecipient(recipient_private))
        => pc = "raised"
====
